---- MODULE Spec2Model ----
(***************************************************************************)
(* Buffered BigQuery insert path of sq-bigquery:                           *)
(*   BigQueryTable.insert  ->  BqBufferQueue (add / addMany / flush)       *)
(*   -> iterator (BigQueryTable._insert) -> per-row promise reconciliation *)
(*                                                                         *)
(* Rows are identified by their submission ordinal 1, 2, 3, ...            *)
(* A nullable JS value is a sequence: <<>> is null, <<v>> is the value v.  *)
(***************************************************************************)
EXTENDS Integers, Sequences, FiniteSets, TLC

VARIABLES
    cfg,        \* options the table was constructed with
    queue,      \* BufferQueue.queue: buffered rows, oldest first
    intervalId, \* BufferQueue flush interval handle (null or a handle)
    liveTimers, \* number of interval timers alive in the event loop
    nextRow,    \* ordinal the next submitted row gets
    pr,         \* per row: the forceable promise returned by add()
    sent,       \* every iterator invocation, in invocation order
    last,       \* the batch reconciled in the last step and the row indexes its response named
    call,       \* the insert call made in the last step, if any, and the code of what it threw
    direct,     \* remote inserts done with buffering disabled
    conv,       \* the last conversion by a static method of the table: payload to row, schema to fields
    parsed,     \* the last BigQueryError call: the error given and what came out
    instance,   \* helper.js _instance and the last call made on the helper
    job,        \* a BigQueryJob, the remote calls it made and the clock
    other       \* which table the variables above belong to, and the second table if there is one

vars == <<cfg, queue, intervalId, liveTimers, nextRow, pr, sent, last, call, direct, conv,
          parsed, instance, job, other>>

\* the table and its queue
tableVars == <<cfg, queue, intervalId, liveTimers, nextRow, pr, sent, last, call, direct, conv,
               other>>

----------------------------------------------------------------------------
(* Bounds *)

MaxExtra == 3
MaxFlush == 2
MaxTrackedFlush == 1
MaxMany == 4
MaxInsertErrors == 2
MaxCalls == 3
MaxUuids == 3
MaxRowErrors == 2
MaxDirect == 2
MaxCreates == 3
MaxTimeout == 2
MaxRuns == 2
MaxPolls == 3
MaxFields == 2

(* Values used by the test-suite *)

TestMaxItems == 5
SmallMaxItems == 2
MaxTimeMs == 100

Null == <<>>
Some(v) == <<v>>

\* rows a run submits: up to MaxExtra beyond the size threshold
RowCap == IF cfg.maxItems = Null THEN MaxExtra + 1 ELSE cfg.maxItems[1] + MaxExtra

Rows == 1..(TestMaxItems + MaxExtra)

\* flushes a run makes: fewer when every row carries a promise
FlushCap == IF cfg.itemPromises THEN MaxTrackedFlush ELSE MaxFlush

----------------------------------------------------------------------------
(* Error values *)

ERROR_ADD_MANY_NOT_SUPPORTED == "ERROR_ADD_MANY_NOT_SUPPORTED"
BQ_INSERT_ERROR == "BQ_INSERT_ERROR"

\* an operation that returned normally, or threw an exception with a code
Returned(op) == [op |-> op, thrown |-> "none"]
Threw(op, code) == [op |-> op, thrown |-> code]

\* the last step was no insert call
NoCall == Returned("none")

NoResponse == [b |-> 0, indexes |-> {}, multi |-> {}, response |-> <<>>]

Undefined == [code |-> "undefined", msg |-> <<>>]
TypeError == [code |-> "TypeError", msg |-> <<"Cannot read properties of null">>]

\* what the iterator's promise can reject with (already parsed by parseErrorAndThrow)
FlushErrors == { [code |-> c, msg |-> <<"remote">>] : c \in {"E404", "E500"} }

\* one {reason, message} element of insertErrors[k].errors
Invalid == [reason |-> "invalid", message |-> "m1"]
Stopped == [reason |-> "stopped", message |-> "m2"]

\* the errors lists a response element can carry: none, one, several
ErrorLists == { <<>>, <<Invalid>>, <<Invalid, Stopped>> }

\* new Exception(Error.BQ_INSERT_ERROR, errorArr.length > 0 ? `${reason}: ${message}` : `Error inserting ...`)
BqException(errorArr) ==
    [code |-> BQ_INSERT_ERROR,
     msg  |-> IF Len(errorArr) > 0
              THEN <<errorArr[1].reason, ": ", errorArr[1].message>>
              ELSE <<"Error inserting into bigQuery: ", "[]">>]

----------------------------------------------------------------------------
(* Forceable promise returned by add() when itemPromises is on *)

NoPromise == [st |-> "none", val |-> Undefined, flag |-> FALSE, calls |-> 0]
NewPromise == [st |-> "pending", val |-> Undefined, flag |-> FALSE, calls |-> 0]

Terminal(p) == p.st \in {"fulfilled", "rejected"}

forceResolve(p) ==
    IF p.st = "pending"
    THEN [p EXCEPT !.st = "fulfilled", !.val = Undefined, !.calls = @ + 1]
    ELSE [p EXCEPT !.calls = @ + 1]

\* a forceReject that takes effect on a settled promise too
forceRejectAgain(p, err) ==
    [p EXCEPT !.st = "rejected", !.val = err, !.calls = @ + 1]

forceReject(p, err) ==
    IF p.st = "pending"
    THEN [p EXCEPT !.st = "rejected", !.val = err, !.calls = @ + 1]
    ELSE [p EXCEPT !.calls = @ + 1]

\* pairs[i][1].__fulfilled = true; pairs[i][1].forceResolve()
ResolveEntry(p) == forceResolve([p EXCEPT !.flag = TRUE])

\* pairs[i][1].__fulfilled = true; pairs[i][1].forceReject(new Exception(...))
RejectEntry(p, errorArr) == forceReject([p EXCEPT !.flag = TRUE], BqException(errorArr))

\* the .catch handler rejecting whatever it finds, marked or not
RejectAlways(p, err) == forceReject(p, err)

\* if (pairs[i][1].__fulfilled !== true) pairs[i][1].forceReject(err)
RejectUnlessFulfilled(p, err) == IF p.flag # TRUE THEN forceReject(p, err) ELSE p

----------------------------------------------------------------------------
(* Array.prototype.splice(0, deleteCount) *)

\* ToIntegerOrInfinity of the deleteCount argument: null becomes 0
ToInteger(v) == IF v = Null THEN 0 ELSE v[1]

Min(a, b) == IF a < b THEN a ELSE b

\* a deleteCount one short
SpliceCountShort(q, deleteCount) ==
    Min(Len(q), IF ToInteger(deleteCount) > 0 THEN ToInteger(deleteCount) - 1 ELSE 0)

SpliceCount(q, deleteCount) == Min(Len(q), ToInteger(deleteCount))

\* the removed elements, one short
SplicedShort(q, deleteCount) ==
    IF SpliceCount(q, deleteCount) > 0 THEN SubSeq(q, 1, SpliceCount(q, deleteCount) - 1) ELSE <<>>

\* the removed elements
Spliced(q, deleteCount) == SubSeq(q, 1, SpliceCount(q, deleteCount))

\* what stays in the array
SpliceRest(q, deleteCount) == SubSeq(q, SpliceCount(q, deleteCount) + 1, Len(q))

----------------------------------------------------------------------------
(* BigQueryError: remote errors turned into exceptions                     *)
(* A list that may be null is Null or Some(list), so that null and the     *)
(* empty list differ                                                       *)

PARTIAL_FAILURE_ERROR == "PartialFailureError"

NoParse == [op |-> "none"]

\* one element of err.errors of a partial failure: the row and its errors
RowErrorItems == [row : 1..2, errors : ErrorLists]

\* the lists of a given length at most n
ListsUpTo(S, n) == UNION { [1..k -> S] : k \in 0..n }

\* errors whose name is not PartialFailureError: API errors with a code,
\* errors without code, with or without a message
WholeErrors ==
    [name : {"ApiError", "TypeError"}, code : {Null, Some("404"), Some("409")},
     message : {Null, Some("Not found")}, stack : {"remote"}, errors : {Null}]

PartialErrors ==
    [name : {PARTIAL_FAILURE_ERROR}, code : {Null},
     message : {Some("A failure occurred during this request.")}, stack : {"remote"},
     errors : { Some(l) : l \in ListsUpTo(RowErrorItems, MaxRowErrors) }]

RemoteErrors == WholeErrors \cup PartialErrors

\* new Exception(code, message): a new error object with its own stack;
\* nothing else of the error it is made for reaches it
Exception(code, message) ==
    [name |-> "Exception", code |-> code, message |-> message, stack |-> "Exception",
     cause |-> Null, errors |-> Null]

\* err.name || err.message
NameOrMessage(err) == Some(err.name)

\* err.message || err.name
MessageOrName(err) == IF err.message # Null THEN err.message ELSE Some(err.name)

\* the last error of the element instead of the first
ParsedItemLast(item) ==
    [row     |-> item.row,
     reason  |-> IF Len(item.errors) > 0 THEN Some(item.errors[Len(item.errors)].reason) ELSE Null,
     message |-> IF Len(item.errors) > 0 THEN Some(item.errors[Len(item.errors)].message) ELSE Null]

\* _.get(item, 'errors[0].reason', null) and _.get(item, 'errors[0].message', null)
ParsedItem(item) ==
    [row     |-> item.row,
     reason  |-> IF Len(item.errors) > 0 THEN Some(item.errors[1].reason) ELSE Null,
     message |-> IF Len(item.errors) > 0 THEN Some(item.errors[1].message) ELSE Null]

\* BigQueryError.parseError(err)
parseError(err) ==
    LET exp == Exception(err.code, MessageOrName(err))
    IN  IF err.name # PARTIAL_FAILURE_ERROR
        THEN [exp EXCEPT !.errors = Null]
        ELSE [exp EXCEPT !.errors =
                 Some([i \in 1..Len(err.errors[1]) |-> ParsedItem(err.errors[1][i])])]

ParseError(err) ==
    /\ parsed' = [op |-> "parseError", err |-> err, outcome |-> "returned",
                  value |-> parseError(err)]
    /\ UNCHANGED <<tableVars, instance, job>>

\* BigQueryError.parseErrorAndThrow(err)
ParseErrorAndThrow(err) ==
    /\ parsed' = [op |-> "parseErrorAndThrow", err |-> err, outcome |-> "threw",
                  value |-> parseError(err)]
    /\ UNCHANGED <<tableVars, instance, job>>

----------------------------------------------------------------------------
(* BigQueryHelper: the module-level client instance                        *)

ERROR_INSTANCE_ALREADY_CREATED == "ERROR_INSTANCE_ALREADY_CREATED"
ERROR_INSTANCE_NOT_CREATED == "ERROR_INSTANCE_NOT_CREATED"

\* let _instance = null, no call made; n counts the clients constructed and
\* made is the client the last successful createInstance returned, null
\* once clearInstance has been called since
NoInstance ==
    [inst |-> Null, n |-> 0, made |-> Null, op |-> "none", thrown |-> "none", ret |-> Null]

HelperOpts ==
    [projectId : {"project-test", "project-other"}, clientEmail : {Null, Some("email")},
     privateKey : {Null, Some("key")}, keyFilename : {Null, Some("file")}]

\* BigQueryHelper.create(opts): the id-th client object constructed; in
\* testing mode (Variables.isTestingMode()) it gets a request interceptor
create(opts, id, testing) ==
    [id          |-> id,
     interceptors |-> IF testing THEN 1 ELSE 0,
     projectId   |-> opts.projectId,
     credentials |-> IF opts.clientEmail # Null /\ opts.privateKey # Null
                     THEN Some([client_email |-> opts.clientEmail[1],
                                private_key |-> opts.privateKey[1]])
                     ELSE Null,
     keyFilename |-> IF opts.clientEmail # Null /\ opts.privateKey # Null
                     THEN Null
                     ELSE opts.keyFilename]

\* the three static methods: the value of _instance afterwards, what was
\* thrown and what was returned
getInstance(inst) ==
    IF inst = Null
    THEN [inst |-> inst, thrown |-> ERROR_INSTANCE_NOT_CREATED, ret |-> Null]
    ELSE [inst |-> inst, thrown |-> "none", ret |-> inst]

\* a createInstance that replaces an existing instance
createInstanceOverwrites(inst, client) ==
    [inst |-> Some(client), thrown |-> "none", ret |-> Some(client)]

\* createInstance(opts), client being what BigQueryHelper.create(opts) makes
createInstance(inst, client) ==
    IF inst # Null
    THEN [inst |-> inst, thrown |-> ERROR_INSTANCE_ALREADY_CREATED, ret |-> Null]
    ELSE [inst |-> Some(client), thrown |-> "none", ret |-> Some(client)]

\* a clearInstance that leaves _instance as it is
clearInstanceKeeps(inst) ==
    [inst |-> inst, thrown |-> "none", ret |-> Null]

clearInstance(inst) ==
    [inst |-> Null, thrown |-> "none", ret |-> Null]

GetInstance ==
    LET r == getInstance(instance.inst)
    IN  /\ instance' = [instance EXCEPT !.inst = r.inst, !.op = "getInstance",
                                        !.thrown = r.thrown, !.ret = r.ret]
        /\ UNCHANGED <<tableVars, parsed, job>>

CreateInstance(opts, testing) ==
    LET r == createInstance(instance.inst, create(opts, instance.n + 1, testing))
    IN  /\ instance.inst = Null => instance.n < MaxCreates
        /\ instance' = [inst |-> r.inst,
                        n |-> IF r.thrown = "none" THEN instance.n + 1 ELSE instance.n,
                        made |-> IF r.thrown = "none" THEN r.ret ELSE instance.made,
                        op |-> "createInstance", thrown |-> r.thrown, ret |-> r.ret]
        /\ UNCHANGED <<tableVars, parsed, job>>

ClearInstance ==
    LET r == clearInstance(instance.inst)
    IN  /\ instance' = [instance EXCEPT !.inst = r.inst, !.made = Null, !.op = "clearInstance",
                                        !.thrown = r.thrown, !.ret = r.ret]
        /\ UNCHANGED <<tableVars, parsed, job>>

NoJob == [pc |-> "none"]

----------------------------------------------------------------------------
(* BigQueryJob: init, validate, run                                        *)
(* An async method is cut at its awaits: pc names the promise the job is   *)
(* waiting for. One call is in flight at a time. Time is counted in wait   *)
(* intervals.                                                              *)

JOB_TIMEOUT == "JOB_TIMEOUT"

\* getJobWaitInterval(): one interval
getJobWaitInterval == 1

\* the client a caller passes as opts.bigQuery (BigQueryFactory.create)
OwnClient == create([projectId |-> "project-test", clientEmail |-> Null, privateKey |-> Null,
                     keyFilename |-> Some("file")], 0, TRUE)

JobOpts ==
    [bigQuery : {Null, Some(OwnClient)}, shouldQueryResults : {Null, Some(FALSE)},
     timeoutInMs : 0..MaxTimeout]

\* getQueryOptions not called yet
NoOptions == [thrown |-> "none"]

\* new BigQueryJob(opts)
NewJob(opts) ==
    [pc |-> "idle", op |-> "none", runs |-> 0,
     bigQuery |-> opts.bigQuery, sqlStr |-> Null, sqlTemplate |-> Null, initialized |-> FALSE,
     shouldQueryResults |-> IF opts.shouldQueryResults # Null THEN opts.shouldQueryResults[1]
                            ELSE TRUE,
     timeoutInMs |-> opts.timeoutInMs,
     getInstanceCalls |-> 0, readFileCalls |-> 0,
     jobs |-> <<>>, resultsCalls |-> 0, polls |-> 0, observed |-> "none", elapsed |-> 0,
     st |-> "none", ret |-> "none", err |-> Null, failedAt |-> "none",
     raw |-> Null, rawAt |-> "none", qo |-> NoOptions]

\* what the remote calls of a job reject with
JobErrors ==
    { err \in WholeErrors : /\ err.message # Null
                            /\ \/ err.name = "ApiError" /\ err.code = Some("404")
                               \/ err.name = "TypeError" /\ err.code = Null }

\* what fs.readFile rejects with
ENOENT == [name |-> "Error", code |-> Some("ENOENT"), message |-> Some("ENOENT: no such file"),
           stack |-> "fs", errors |-> Null]

JobStates == {"PENDING", "RUNNING", "DONE"}

\* the promise of the call in flight settles; raw and rawAt keep the error
\* a remote call rejected with and the await it was met at
Fulfil(j, ret) == [j EXCEPT !.pc = "idle", !.st = "fulfilled", !.ret = ret]
Reject(j, e) == [j EXCEPT !.pc = "idle", !.st = "rejected", !.err = Some(e), !.failedAt = j.pc]

\* an isInitialized() that never says yes
isInitializedNever(j) == FALSE

isInitialized(j) == j.initialized = TRUE

\* an isJobDone that takes any state for DONE
isJobDoneAlways(state) == TRUE

isJobDone(state) == state = "DONE"

\* this.bigQuery.createQueryJob(jobOpts), awaited
createQueryJob(j, dryRun) ==
    [j EXCEPT !.jobs = Append(@, [dryRun |-> dryRun]),
              !.pc = IF dryRun THEN "dryRun" ELSE "query"]

\* init() has returned this: init is done, validate and run go on to the dry run
afterInit(j) == IF j.op = "init" THEN Fulfil(j, "this") ELSE createQueryJob(j, TRUE)

\* fs.readFile(this.sqlFilename, 'utf8'), awaited
readFile(j) == [j EXCEPT !.readFileCalls = @ + 1, !.pc = "readFile"]

\* a catch of validate() that lets run() go on
validateCatchGoesOn(j, err) ==
    IF j.op = "validate" THEN Fulfil(j, "undefined") ELSE createQueryJob(j, FALSE)

\* catch(err) { BigQueryError.parseErrorAndThrow(err); } in validate()
validateCatch(j, err) == Reject(j, parseError(err))

\* the head of the loop of waitForJobDone: poll again or throw JOB_TIMEOUT,
\* which the catch of run() hands to parseErrorAndThrow; polls are counted
\* up to MaxPolls
waitLoop(j) ==
    IF j.elapsed < j.timeoutInMs
    THEN [j EXCEPT !.polls = Min(@ + 1, MaxPolls), !.pc = "poll"]
    ELSE Reject(j, parseError(Exception(Some(JOB_TIMEOUT),
                                        Some("Timeout exceeded waiting for job completion"))))

\* a delay that returns with no time gone
delayNoTime(j, n) == j

\* await PromiseTool.delay(n): n intervals later
delay(j, n) == [j EXCEPT !.elapsed = @ + n]

\* init(), validate() or run() called on the job: everything up to the
\* first await
Begin(op) ==
    /\ job.pc = "idle"
    /\ job.runs < MaxRuns
    /\ LET j0 == [job EXCEPT !.op = op, !.runs = @ + 1, !.st = "pending", !.ret = "none",
                             !.err = Null, !.failedAt = "none", !.raw = Null,
                             !.rawAt = "none", !.jobs = <<>>,
                             !.resultsCalls = 0, !.polls = 0, !.observed = "none",
                             !.elapsed = 0]
       IN  IF isInitialized(j0)
           THEN job' = afterInit(j0) /\ UNCHANGED instance
           ELSE IF j0.bigQuery # Null
           THEN job' = readFile(j0) /\ UNCHANGED instance
           ELSE LET r  == getInstance(instance.inst)
                    j1 == [j0 EXCEPT !.getInstanceCalls = @ + 1]
                IN  /\ instance' = [instance EXCEPT !.op = "getInstance", !.thrown = r.thrown,
                                                    !.ret = r.ret]
                    /\ job' = IF r.thrown # "none"
                              THEN Reject(j1, Exception(Some(r.thrown),
                                                        Some("BigQuery instance should be created")))
                              ELSE readFile([j1 EXCEPT !.bigQuery = r.ret])
    /\ UNCHANGED <<tableVars, parsed>>

\* init() after await fs.readFile
ReadFileSettles(ok) ==
    /\ job.pc = "readFile"
    /\ job' = IF ok
              THEN afterInit([job EXCEPT !.sqlStr = Some("SELECT"),
                                         !.sqlTemplate = Some("template(SELECT)"),
                                         !.initialized = TRUE])
              ELSE Reject(job, ENOENT)
    /\ UNCHANGED <<tableVars, parsed, instance>>

\* validate() after await createQueryJob({dryRun: true}); run() goes on to
\* the query job
DryRunFulfils ==
    /\ job.pc = "dryRun"
    /\ job' = IF job.op = "validate" THEN Fulfil(job, "undefined")
              ELSE createQueryJob(job, FALSE)
    /\ UNCHANGED <<tableVars, parsed, instance>>

DryRunRejects(err) ==
    /\ job.pc = "dryRun"
    /\ job' = [validateCatch(job, err) EXCEPT !.raw = Some(err), !.rawAt = job.pc]
    /\ UNCHANGED <<tableVars, parsed, instance>>

\* run() after await createQueryJob({dryRun: false})
QueryFulfils ==
    /\ job.pc = "query"
    /\ job' = IF job.shouldQueryResults
              THEN [job EXCEPT !.resultsCalls = @ + 1, !.pc = "results"]
              ELSE waitLoop(job)
    /\ UNCHANGED <<tableVars, parsed, instance>>

\* run() after await this._getQueryResults(job)
ResultsFulfil ==
    /\ job.pc = "results"
    /\ job' = [job EXCEPT !.pc = "metadata"]
    /\ UNCHANGED <<tableVars, parsed, instance>>

\* run() after await job.getMetadata(): return rows
MetadataFulfils ==
    /\ job.pc = "metadata"
    /\ job' = Fulfil(job, "rows")
    /\ UNCHANGED <<tableVars, parsed, instance>>

\* waitForJobDone after await job.getMetadata(), which took dt intervals;
\* on DONE run() returns rows, which was never assigned
PollFulfils(state, dt) ==
    /\ job.pc = "poll"
    /\ LET j1 == [job EXCEPT !.elapsed = @ + dt, !.observed = state]
       IN  job' = IF isJobDone(state) THEN Fulfil(j1, "undefined")
                  ELSE [j1 EXCEPT !.pc = "delay"]
    /\ UNCHANGED <<tableVars, parsed, instance>>

\* waitForJobDone after await PromiseTool.delay(this.getJobWaitInterval())
DelayEnds ==
    /\ job.pc = "delay"
    /\ job' = waitLoop(delay(job, getJobWaitInterval))
    /\ UNCHANGED <<tableVars, parsed, instance>>

\* a remote call of run() rejects: catch(err) { parseErrorAndThrow(err) }
RunRejects(err) ==
    /\ job.pc \in {"query", "results", "metadata", "poll"}
    /\ job' = [Reject(job, parseError(err)) EXCEPT !.raw = Some(err), !.rawAt = job.pc]
    /\ UNCHANGED <<tableVars, parsed, instance>>

\* the argument of getQueryOptions: a key is absent (Null) or carries a value
QueryOpts ==
    [dryRun : {Null, Some(TRUE), Some(FALSE)}, useLegacySql : {Null, Some(TRUE), Some(FALSE)},
     query : {Null, Some("SELECT * FROM some_table")}, location : {Null, Some("VALUE")},
     jobId : {Null, Some("VALUE")}, jobPrefix : {Null, Some("VALUE")}]

\* getQuerySQL(): the template applied to the query params
getQuerySQL(j) == "SELECT some_field, other_field FROM DATASET.TABLE"

\* a getQueryOptions that spreads opts last
getQueryOptionsOptsLast(j, opts) ==
    [dryRun       |-> IF opts.dryRun # Null THEN opts.dryRun ELSE Some(FALSE),
     useLegacySql |-> IF opts.useLegacySql # Null THEN opts.useLegacySql ELSE Some(FALSE),
     query        |-> IF opts.query # Null THEN opts.query ELSE Some(getQuerySQL(j)),
     destination  |-> Null,
     location     |-> opts.location,
     jobId        |-> opts.jobId,
     jobPrefix    |-> opts.jobPrefix]

\* getQueryOptions(opts) of a job without destination table: the defaults,
\* then the keys of opts, then location, jobId and jobPrefix set to null
getQueryOptions(j, opts) ==
    [dryRun       |-> IF opts.dryRun # Null THEN opts.dryRun ELSE Some(FALSE),
     useLegacySql |-> IF opts.useLegacySql # Null THEN opts.useLegacySql ELSE Some(FALSE),
     query        |-> IF opts.query # Null THEN opts.query ELSE Some(getQuerySQL(j)),
     destination  |-> Null,
     location     |-> Null,
     jobId        |-> Null,
     jobPrefix    |-> Null]

\* getQueryOptions(opts) called on a job at rest; before init() sqlTemplate
\* is null and getQuerySQL() throws a TypeError
GetQueryOptions(opts) ==
    /\ job.pc = "idle"
    /\ job' = [job EXCEPT !.qo = IF job.sqlTemplate = Null
                                 THEN [thrown |-> TypeError.code, opts |-> opts]
                                 ELSE [thrown |-> "none", opts |-> opts,
                                       out |-> getQueryOptions(job, opts)]]
    /\ UNCHANGED <<tableVars, parsed, instance>>

\* the steps a job in flight takes when the promise it awaits settles
JobSteps ==
    \/ \E ok \in BOOLEAN : ReadFileSettles(ok)
    \/ DryRunFulfils
    \/ \E err \in JobErrors : DryRunRejects(err)
    \/ QueryFulfils
    \/ ResultsFulfil
    \/ MetadataFulfils
    \/ \E state \in JobStates, dt \in 0..1 : PollFulfils(state, dt)
    \/ DelayEnds
    \/ \E err \in JobErrors : RunRejects(err)

----------------------------------------------------------------------------
(* Payload-to-row conversions                                              *)
(* A payload object is a record of nullable fields; an absent field is Null *)

NoConv == [path |-> "none", uuids |-> 0]

\* insert ids callers pass: 0 is falsy, the others are the test-suite's
CallerIds == {0, 123456789, 987654321}

Payloads ==
    [value : {Null, Some(1), Some(2)}, title : {Null, Some("t")},
     _insertId : {Null} \cup { Some(i) : i \in CallerIds }]

\* the n-th value of uuid.v4(): never a caller's id, never one made before
Uuid(n) == 0 - n

\* a JS value that || keeps: neither undefined / null nor 0
Truthy(v) == v # Null /\ v[1] # 0

\* BigQueryTable.getRawRow(row): the row built and the caller's object
\* afterwards; uuid is the id getInsertId() would return
getRawRow(row, uuid) ==
    LET item == row
    IN  IF item._insertId # Null
        THEN [out   |-> [insertId |-> item._insertId[1],
                         json |-> [item EXCEPT !._insertId = Null]],
              after |-> row, made |-> 0]
        ELSE [out   |-> [insertId |-> uuid, json |-> item],
              after |-> row, made |-> 1]

\* getInsertData(row) as a storage class overrides it: a new object with
\* the data fields of the row
getInsertData(row) == [json |-> [row EXCEPT !._insertId = Null]]

\* BigQueryStorage.mapRow(row)
mapRow(row, uuid) ==
    LET insertData == getInsertData(row)
        row2 == [row EXCEPT !._insertId = IF Truthy(@) THEN @ ELSE Some(uuid)]
    IN  [out   |-> [insertId |-> row2._insertId[1], json |-> insertData.json],
         after |-> row2, made |-> IF Truthy(row._insertId) THEN 0 ELSE 1]

\* BigQueryTableConst.Schema.Type and Schema.Mode
SchemaTypes == {"STRING", "INTEGER", "FLOAT", "BOOLEAN", "TIMESTAMP"}
NULLABLE == "NULLABLE"
INVALID_SCHEMA_TYPE == "ERROR_INVALID_SCHEMA_TYPE"

\* property names every plain object inherits from Object.prototype
ObjectPrototypeKeys == {"constructor", "toString"}

\* BigQueryTableConst.Schema.Type[type]: the value of an own key, the
\* inherited member for a name of Object.prototype, undefined otherwise
TypeLookup(type) ==
    IF type \in SchemaTypes THEN Some(type)
    ELSE IF type \in ObjectPrototypeKeys THEN Some("function")
    ELSE Null

\* _.entries(schema): <<key, type>> pairs with distinct keys, up to MaxFields
SchemaKeys == {"string", "date", "int"}
SchemaValues == SchemaTypes \cup {"INVALID_TYPE", "constructor"}
Schemas ==
    { l \in ListsUpTo(SchemaKeys \X SchemaValues, MaxFields) :
        \A i, k \in 1..Len(l) : l[i][1] = l[k][1] => i = k }

\* BigQueryTable.parseSchema(schema)
parseSchema(pairs) ==
    IF \E i \in 1..Len(pairs) : TypeLookup(pairs[i][2]) = Null
    THEN [thrown |-> INVALID_SCHEMA_TYPE]
    ELSE [thrown |-> "none",
          fields |-> [i \in 1..Len(pairs) |->
                        [name |-> pairs[i][1], type |-> pairs[i][2], mode |-> NULLABLE]]]

ParseSchema(pairs) ==
    /\ conv' = [path |-> "parseSchema", schema |-> pairs, res |-> parseSchema(pairs),
                uuids |-> conv.uuids]
    /\ UNCHANGED <<cfg, queue, intervalId, liveTimers, nextRow, pr, sent, last, call, direct>>
    /\ UNCHANGED <<parsed, instance, job, other>>

\* one conversion of a payload by f
Converts(path, row, res) ==
    /\ conv.uuids < MaxUuids
    /\ conv' = [path |-> path, before |-> row, after |-> res.after, out |-> res.out,
                uuids |-> conv.uuids + res.made]
    /\ UNCHANGED <<cfg, queue, intervalId, liveTimers, nextRow, pr, sent, last, call, direct>>
    /\ UNCHANGED <<parsed, instance, job, other>>

GetRawRow(row) == Converts("getRawRow", row, getRawRow(row, Uuid(conv.uuids + 1)))

MapRow(row) == Converts("mapRow", row, mapRow(row, Uuid(conv.uuids + 1)))

----------------------------------------------------------------------------
(* Flush interval of the base BufferQueue; iv = [id, n] is the handle    *)
(* field and the number of live interval timers                            *)

startFlushInterval(iv) ==
    IF cfg.maxTime # Null /\ iv.id = Null
    THEN [id |-> Some(1), n |-> iv.n + 1]
    ELSE iv

clearFlushInterval(iv) ==
    IF iv.id # Null
    THEN [id |-> Null, n |-> iv.n - 1]
    ELSE iv

Interval == [id |-> intervalId, n |-> liveTimers]

----------------------------------------------------------------------------
(* BqBufferQueue.flush() up to the call of the iterator *)

\* the buffer holds rows by their ordinal r: Item(r) is the raw row and
\* Handle(r) the promise add() returned for it
Item(r) == [row |-> r]
Handle(r) == [promise |-> r]

\* the entry of the buffer for row r: the pair [item, promise] with per-row
\* promises, the item itself without
Entry(r) == IF cfg.itemPromises THEN <<Item(r), Handle(r)>> ELSE Item(r)

\* the entries handed over as they are, per-row promises or not
flushItemsPairs(pairs) == [i \in 1..Len(pairs) |-> Entry(pairs[i])]

\* items of flush(): pairs[i][0] with per-row promises, the entries otherwise
flushItems(pairs) ==
    IF cfg.itemPromises
    THEN [i \in 1..Len(pairs) |-> Entry(pairs[i])[1]]
    ELSE [i \in 1..Len(pairs) |-> Entry(pairs[i])]

\* a batch in flight: the entries spliced and this.iterator(items)
Batch(pairs, cause) ==
    [pairs |-> pairs, items |-> flushItems(pairs), cause |-> cause, st |-> "inflight", out |-> "pending", err |-> Undefined,
     ret |-> "pending", logged |-> 0]

\* flush() clearing the interval whether or not rows stay in the buffer
flushAlwaysClears(q, iv, cause) ==
    LET pairs == Spliced(q, cfg.maxItems)
        rest  == SpliceRest(q, cfg.maxItems)
        iv2   == clearFlushInterval(iv)
    IN  /\ queue' = rest
        /\ intervalId' = iv2.id
        /\ liveTimers' = iv2.n
        /\ sent' = Append(sent, Batch(pairs, cause))

\* flush() dropping the handle of the interval without clearInterval()
flushDropsHandle(q, iv, cause) ==
    LET pairs == Spliced(q, cfg.maxItems)
        rest  == SpliceRest(q, cfg.maxItems)
        iv2   == IF Len(rest) = 0 THEN [id |-> Null, n |-> iv.n] ELSE iv
    IN  /\ queue' = rest
        /\ intervalId' = iv2.id
        /\ liveTimers' = iv2.n
        /\ sent' = Append(sent, Batch(pairs, cause))

\* flush() copying the rows of the batch and leaving them in the buffer
flushLeavesRows(q, iv, cause) ==
    LET pairs == Spliced(q, cfg.maxItems)
        iv2   == IF Len(q) = 0 THEN clearFlushInterval(iv) ELSE iv
    IN  /\ queue' = q
        /\ intervalId' = iv2.id
        /\ liveTimers' = iv2.n
        /\ sent' = Append(sent, Batch(pairs, cause))

\* q and iv are this.queue and the interval when flush() is entered
flush(q, iv, cause) ==
    LET pairs == Spliced(q, cfg.maxItems)
        rest  == SpliceRest(q, cfg.maxItems)
        iv2   == IF Len(rest) = 0 THEN clearFlushInterval(iv) ELSE iv
    IN  /\ queue' = rest
        /\ intervalId' = iv2.id
        /\ liveTimers' = iv2.n
        /\ sent' = Append(sent, Batch(pairs, cause))

\* a batch whose this.iterator(items) threw: there is no promise to settle
Thrown(pairs, cause) ==
    [Batch(pairs, cause) EXCEPT !.st = "thrown", !.out = "thrown", !.err = TypeError, !.ret = "none"]

\* flush() putting the batch back in the buffer when the iterator throws
flushThrowingRestores(q, iv, cause) ==
    LET pairs == Spliced(q, cfg.maxItems)
    IN  /\ queue' = q
        /\ intervalId' = iv.id
        /\ liveTimers' = iv.n
        /\ sent' = Append(sent, Thrown(pairs, cause))

\* flush() when this.iterator(items) throws: the splice and the clearing of
\* the interval are done, the exception leaves flush()
flushThrowing(q, iv, cause) ==
    LET pairs == Spliced(q, cfg.maxItems)
        rest  == SpliceRest(q, cfg.maxItems)
        iv2   == IF Len(rest) = 0 THEN clearFlushInterval(iv) ELSE iv
    IN  /\ queue' = rest
        /\ intervalId' = iv2.id
        /\ liveTimers' = iv2.n
        /\ sent' = Append(sent, Thrown(pairs, cause))

----------------------------------------------------------------------------
(* Enqueue operations of the base BufferQueue *)

\* size threshold reached
shouldFlush(q) == cfg.maxItems # Null /\ Len(q) >= cfg.maxItems[1]

\* common tail of add() and addMany(): q is the queue after the push
Enqueued(q) ==
    LET iv == startFlushInterval(Interval)
    IN  IF shouldFlush(q)
        THEN /\ Len(sent) < FlushCap
             /\ flush(q, iv, "size")
        ELSE /\ queue' = q
             /\ intervalId' = iv.id
             /\ liveTimers' = iv.n
             /\ UNCHANGED sent

\* BufferQueue.add(item)
add ==
    /\ nextRow <= RowCap
    /\ pr' = [pr EXCEPT ![nextRow] = IF cfg.itemPromises THEN NewPromise ELSE NoPromise]
    /\ nextRow' = nextRow + 1
    /\ Enqueued(Append(queue, nextRow))

\* BufferQueue.addMany(items), n = items.length
addMany(n) ==
    /\ nextRow + n - 1 <= RowCap
    /\ nextRow' = nextRow + n
    /\ Enqueued(queue \o [i \in 1..n |-> nextRow + i - 1])
    /\ UNCHANGED pr

----------------------------------------------------------------------------
(* BigQueryTable.insert(data) *)

\* insert(row) with a single object
InsertOne ==
    /\ cfg.bufferEnabled
    /\ add
    /\ call' = Returned("insertOne")
    /\ last' = NoResponse
    /\ UNCHANGED <<cfg, conv, parsed, instance, job, other, direct>>

\* insert(rows) of the revision without per-row promises: always addMany
InsertManyUnchecked(n) ==
    /\ cfg.bufferEnabled
    /\ addMany(n)
    /\ call' = Returned("insertMany")
    /\ last' = NoResponse
    /\ UNCHANGED <<cfg, conv, parsed, instance, job, other, direct>>

\* insert(rows) with an array of n rows, buffering on
InsertMany(n) ==
    /\ cfg.bufferEnabled
    /\ IF cfg.itemPromises
       THEN /\ call' = Threw("insertMany", ERROR_ADD_MANY_NOT_SUPPORTED)
            /\ UNCHANGED <<queue, intervalId, liveTimers, nextRow, pr, sent>>
       ELSE /\ addMany(n)
            /\ call' = Returned("insertMany")
    /\ last' = NoResponse
    /\ UNCHANGED <<cfg, conv, parsed, instance, job, other, direct>>

\* the argument of insert(data): an array of payloads or a single payload
ArrayOf(items) == [array |-> TRUE, items |-> items]
Single(item) == [array |-> FALSE, items |-> <<item>>]

\* the payload of the row with ordinal r, when only its ordinal matters
RowPayload(r) == [value |-> Some(r), title |-> Null, _insertId |-> Null]

RowsArray(n) == ArrayOf([i \in 1..n |-> RowPayload(nextRow + i - 1)])

\* the rows mapped last to first
getRawRowsBackwards(data, base) ==
    LET items == data.items
    IN  [i \in 1..Len(items) |->
            getRawRow(items[Len(items) + 1 - i], Uuid(base + i)).out]

\* BigQueryTable.getRawRows(rows): a single object is wrapped in an array;
\* the row with ordinal base + i gets the generated id Uuid(base + i)
getRawRows(data, base) ==
    LET items == data.items
    IN  [i \in 1..Len(items) |-> getRawRow(items[i], Uuid(base + i)).out]

\* insert(data) with buffering off: this._insert(getRawRows(data)) calls
\* this.table.insert(items, {raw: true}) at once and returns its promise
InsertDirect(data) ==
    /\ ~cfg.bufferEnabled
    /\ nextRow + Len(data.items) - 1 <= RowCap
    /\ nextRow' = nextRow + Len(data.items)
    /\ direct' = Append(direct, [data |-> data, rows |-> getRawRows(data, nextRow - 1),
                                 st |-> "pending"])
    /\ call' = Returned("insertDirect")
    /\ last' = NoResponse
    /\ UNCHANGED <<cfg, conv, parsed, instance, job, other, queue, intervalId, liveTimers, pr, sent>>

\* what this.table.insert's promise settles with: [response, ...] or an error
RemoteData == { <<[kind |-> "bigquery#tableDataInsertAllResponse"], "apiResponse">> }

InsertFailures ==
    { err \in WholeErrors : err.name = "ApiError" /\ err.code = Some("404") /\ err.message # Null }

\* .catch(BigQueryError.parseErrorAndThrow).then(data => data[0]) on the
\* k-th unbuffered insert
RemoteFulfils(k, data) ==
    /\ k \in 1..Len(direct)
    /\ direct[k].st = "pending"
    /\ direct' = [direct EXCEPT ![k] = [data |-> @.data, rows |-> @.rows, st |-> "fulfilled",
                                        remote |-> data, val |-> data[1]]]
    /\ call' = NoCall
    /\ last' = NoResponse
    /\ UNCHANGED <<cfg, conv, parsed, instance, job, other, queue, intervalId, liveTimers, nextRow, pr, sent>>

RemoteRejects(k, err) ==
    /\ k \in 1..Len(direct)
    /\ direct[k].st = "pending"
    /\ direct' = [direct EXCEPT ![k] = [data |-> @.data, rows |-> @.rows, st |-> "rejected",
                                        remote |-> err, val |-> parseError(err)]]
    /\ call' = NoCall
    /\ last' = NoResponse
    /\ UNCHANGED <<cfg, conv, parsed, instance, job, other, queue, intervalId, liveTimers, nextRow, pr, sent>>

----------------------------------------------------------------------------
(* Flush triggers other than the size threshold *)

\* the interval timer fires: its callback is flush()
TimerFires ==
    /\ cfg.bufferEnabled
    /\ liveTimers > 0
    /\ Len(sent) < FlushCap
    /\ flush(queue, Interval, "timer")
    /\ call' = NoCall
    /\ last' = NoResponse
    /\ UNCHANGED <<cfg, conv, parsed, instance, job, other, nextRow, pr, direct>>

\* table.bufferQueue.flush() called by the application
ManualFlush ==
    /\ cfg.bufferEnabled
    /\ Len(sent) < FlushCap
    /\ flush(queue, Interval, "manual")
    /\ call' = NoCall
    /\ last' = NoResponse
    /\ UNCHANGED <<cfg, conv, parsed, instance, job, other, nextRow, pr, direct>>

\* the interval timer fires and the iterator throws
TimerFiresIteratorThrows ==
    /\ cfg.bufferEnabled
    /\ liveTimers > 0
    /\ Len(sent) < FlushCap
    /\ flushThrowing(queue, Interval, "timer")
    /\ call' = Threw("timer", TypeError.code)
    /\ last' = NoResponse
    /\ UNCHANGED <<cfg, conv, parsed, instance, job, other, nextRow, pr, direct>>

\* table.bufferQueue.flush() called by the application and the iterator throws
ManualFlushIteratorThrows ==
    /\ cfg.bufferEnabled
    /\ Len(sent) < FlushCap
    /\ flushThrowing(queue, Interval, "manual")
    /\ call' = Threw("flush", TypeError.code)
    /\ last' = NoResponse
    /\ UNCHANGED <<cfg, conv, parsed, instance, job, other, nextRow, pr, direct>>

\* table.bufferQueue.flush() called again while an earlier batch is in flight
FlushAgain ==
    /\ cfg.bufferEnabled
    /\ \E b \in 1..Len(sent) : sent[b].st = "inflight"
    /\ Len(sent) < MaxFlush
    /\ flush(queue, Interval, "manual")
    /\ call' = NoCall
    /\ last' = NoResponse
    /\ UNCHANGED <<cfg, conv, parsed, instance, job, other, nextRow, pr, direct>>

----------------------------------------------------------------------------
(* Reconciliation of the iterator's promise                                *)

\* insertErrors of a response: up to MaxInsertErrors elements {index, errors}
\* with index 0 .. SmallMaxItems (the last one is outside a batch of SmallMaxItems)
InsertErrorElems == [index : 0..SmallMaxItems, errors : ErrorLists]

\* the service reports row errors in index order; an index can repeat
RECURSIVE SeqsUpTo(_, _)
SeqsUpTo(S, n) ==
    IF n = 0 THEN { <<>> }
    ELSE LET shorter == SeqsUpTo(S, n - 1)
             longest == { m \in shorter : Len(m) = n - 1 }
         IN  shorter \cup { l \in { Append(m, x) : m \in longest, x \in S } :
                                n = 1 \/ l[n - 1].index <= l[n].index }

Responses == SeqsUpTo(InsertErrorElems, MaxInsertErrors)

\* responses without row errors, or with one
OneRowError == SeqsUpTo(InsertErrorElems, 1)

\* errors[i] after  insertErrors.forEach(error => errors[error.index] = error.errors):
\* the positions of insertErrors that write key i; the last one wins
Writers(insertErrors, i) == { k \in 1..Len(insertErrors) : insertErrors[k].index = i }

HasErrors(insertErrors, i) == Writers(insertErrors, i) # {}

\* the keys of errors: every index the response names
Indexes(insertErrors) == { insertErrors[k].index : k \in 1..Len(insertErrors) }

ErrorsAt(insertErrors, i) ==
    LET w == Writers(insertErrors, i)
    IN  insertErrors[CHOOSE k \in w : \A j \in w : j <= k].errors

\* the .then handler with the loop ending one entry early
RECURSIVE ThenLoopShort(_, _, _, _)
ThenLoopShort(prs, pairs, insertErrors, i) ==
    IF i >= Len(pairs) THEN [pr |-> prs, threw |-> 0]
    ELSE LET r == pairs[i]
         IN  IF HasErrors(insertErrors, i - 1)
             THEN ThenLoopShort([prs EXCEPT ![r] = RejectEntry(@, ErrorsAt(insertErrors, i - 1))],
                                pairs, insertErrors, i + 1)
             ELSE ThenLoopShort([prs EXCEPT ![r] = ResolveEntry(@)],
                                pairs, insertErrors, i + 1)

\* the .then handler marking the entry as fulfilled before it logs
RECURSIVE ThenLoopMarksFirst(_, _, _, _)
ThenLoopMarksFirst(prs, pairs, insertErrors, i) ==
    IF i > Len(pairs) THEN [pr |-> prs, threw |-> 0]
    ELSE LET r == pairs[i]
         IN  IF HasErrors(insertErrors, i - 1)
             THEN LET errorArr == ErrorsAt(insertErrors, i - 1)
                  IN  IF Len(errorArr) > 1 /\ cfg.logger = Null
                      THEN [pr |-> [prs EXCEPT ![r] = [@ EXCEPT !.flag = TRUE]], threw |-> i]
                      ELSE ThenLoopMarksFirst([prs EXCEPT ![r] = RejectEntry(@, errorArr)],
                                              pairs, insertErrors, i + 1)
             ELSE ThenLoopMarksFirst([prs EXCEPT ![r] = ResolveEntry(@)],
                                     pairs, insertErrors, i + 1)

\* the for loop of the .then handler from position i (1-based) on; it stops
\* where this.logger.notify(...) is reached with this.logger == null.
\* Result: the promises and the position that threw (0: none)
RECURSIVE ThenLoop(_, _, _, _)
ThenLoop(prs, pairs, insertErrors, i) ==
    IF i > Len(pairs) THEN [pr |-> prs, threw |-> 0]
    ELSE LET r == pairs[i]
         IN  IF HasErrors(insertErrors, i - 1)
             THEN LET errorArr == ErrorsAt(insertErrors, i - 1)
                  IN  IF Len(errorArr) > 1 /\ cfg.logger = Null
                      THEN [pr |-> prs, threw |-> i]
                      ELSE ThenLoop([prs EXCEPT ![r] = RejectEntry(@, errorArr)],
                                    pairs, insertErrors, i + 1)
             ELSE ThenLoop([prs EXCEPT ![r] = ResolveEntry(@)],
                           pairs, insertErrors, i + 1)

\* the .catch handler of the first revision: forceReject() without the error
CatchLoopNoError(prs, pairs, err) ==
    [r \in Rows |->
        IF (\E i \in 1..Len(pairs) : pairs[i] = r) /\ prs[r].flag # TRUE
        THEN forceReject(prs[r], Undefined)
        ELSE prs[r]]

\* the for loop of the .catch handler
CatchLoop(prs, pairs, err) ==
    [r \in Rows |->
        IF \E i \in 1..Len(pairs) : pairs[i] = r
        THEN RejectUnlessFulfilled(prs[r], err)
        ELSE prs[r]]

\* the state of the promise a .then / .catch call returns once its handler
\* has run: rejected when the handler threw, fulfilled when it returned
Handled(threw) == IF threw THEN "rejected" ELSE "fulfilled"

\* the indexes whose errors list, as the handler reads it, has several errors
MultiErrors(insertErrors) ==
    { i \in Indexes(insertErrors) : Len(ErrorsAt(insertErrors, i)) > 1 }

\* the untracked .catch handler ending with  throw err
UntrackedCatchRethrow(logger) ==
    [logged |-> IF logger # Null THEN 1 ELSE 0, threw |-> TRUE]

\* .catch(err => { if (this.logger != null) this.logger.notify(...)... })
UntrackedCatch(logger) ==
    [logged |-> IF logger # Null THEN 1 ELSE 0, threw |-> FALSE]

\* the tracked .catch handler ending with  throw err
TrackedCatchRethrow(prs, pairs, err) ==
    [pr |-> CatchLoop(prs, pairs, err), threw |-> TRUE]

\* .catch(err => { for (...) if (...) pairs[i][1].forceReject(err) })
TrackedCatch(prs, pairs, err) ==
    [pr |-> CatchLoop(prs, pairs, err), threw |-> FALSE]

\* the iterator's promise of batch b fulfils with a response and the
\* success handler runs
IteratorFulfils(b, insertErrors) ==
    /\ b \in 1..Len(sent)
    /\ sent[b].st = "inflight"
    /\ IF cfg.itemPromises
       THEN LET res == ThenLoop(pr, sent[b].pairs, insertErrors, 1)
            IN  /\ last' = [b |-> b, indexes |-> Indexes(insertErrors),
                            multi |-> MultiErrors(insertErrors), response |-> insertErrors]
                /\ pr' = res.pr
                /\ sent' = [sent EXCEPT ![b] =
                              IF res.threw = 0
                              THEN [@ EXCEPT !.st = "done", !.out = "ok", !.ret = Handled(FALSE)]
                              ELSE [@ EXCEPT !.st = "threw", !.out = "threw", !.err = TypeError]]
       ELSE /\ last' = NoResponse
            /\ sent' = [sent EXCEPT ![b] = [@ EXCEPT !.st = "done", !.out = "ok", !.ret = "fulfilled"]]
            /\ UNCHANGED pr
    /\ call' = NoCall
    /\ UNCHANGED <<cfg, conv, parsed, instance, job, other, queue, intervalId, liveTimers, nextRow, direct>>

\* the iterator's promise of batch b rejects
IteratorRejects(b, err) ==
    /\ b \in 1..Len(sent)
    /\ sent[b].st = "inflight"
    /\ sent' = [sent EXCEPT ![b] = [@ EXCEPT !.st = "rejected", !.out = "rejected", !.err = err]]
    /\ call' = NoCall
    /\ last' = NoResponse
    /\ UNCHANGED <<cfg, conv, parsed, instance, job, other, queue, intervalId, liveTimers, nextRow, pr, direct>>

\* a failure handler that puts the rows of the failed batch back in the buffer
CatchHandlerRequeues(b) ==
    /\ b \in 1..Len(sent)
    /\ sent[b].st \in {"rejected", "threw"}
    /\ IF cfg.itemPromises
       THEN LET res == TrackedCatch(pr, sent[b].pairs, sent[b].err)
            IN  /\ pr' = res.pr
                /\ sent' = [sent EXCEPT ![b] = [@ EXCEPT !.st = "done", !.ret = Handled(res.threw)]]
       ELSE LET res == UntrackedCatch(cfg.logger)
            IN  /\ UNCHANGED pr
                /\ sent' = [sent EXCEPT ![b] = [@ EXCEPT !.st = "done", !.logged = @ + res.logged,
                                                         !.ret = Handled(res.threw)]]
    /\ call' = NoCall
    /\ last' = IF last.b = b THEN last ELSE NoResponse
    /\ queue' = sent[b].pairs \o queue
    /\ UNCHANGED <<cfg, conv, parsed, instance, job, other, intervalId, liveTimers, nextRow, direct>>

\* the failure handler of batch b runs, after a rejection or after the
\* success handler threw
CatchHandler(b) ==
    /\ b \in 1..Len(sent)
    /\ sent[b].st \in {"rejected", "threw"}
    /\ IF cfg.itemPromises
       THEN LET res == TrackedCatch(pr, sent[b].pairs, sent[b].err)
            IN  /\ pr' = res.pr
                /\ sent' = [sent EXCEPT ![b] = [@ EXCEPT !.st = "done", !.ret = Handled(res.threw)]]
       ELSE LET res == UntrackedCatch(cfg.logger)
            IN  /\ UNCHANGED pr
                /\ sent' = [sent EXCEPT ![b] = [@ EXCEPT !.st = "done", !.logged = @ + res.logged,
                                                         !.ret = Handled(res.threw)]]
    /\ call' = NoCall
    /\ last' = IF last.b = b THEN last ELSE NoResponse
    /\ UNCHANGED <<cfg, conv, parsed, instance, job, other, queue, intervalId, liveTimers, nextRow, direct>>

----------------------------------------------------------------------------
Configs ==
    [bufferEnabled : BOOLEAN,
     maxItems      : {Null, Some(SmallMaxItems), Some(TestMaxItems)},
     maxTime       : {Null, Some(MaxTimeMs)},
     itemPromises  : BOOLEAN,
     logger        : {Null, Some("logger")}]

\* the program has one table
OneTable == [this |-> 1, parked |-> Null]

\* the fields of the table in use and of its queue
ThisTable ==
    [cfg |-> cfg, queue |-> queue, intervalId |-> intervalId, liveTimers |-> liveTimers,
     nextRow |-> nextRow, pr |-> pr, sent |-> sent]

\* new BigQueryTable(table, opts) and its new BufferQueue(opts)
NewTable(c) ==
    [cfg |-> c, queue |-> <<>>, intervalId |-> Null, liveTimers |-> 0,
     nextRow |-> 1, pr |-> [r \in Rows |-> NoPromise], sent |-> <<>>]

\* the fields of table t
Table(t) == IF other.this = t THEN ThisTable ELSE other.parked[1]

\* the next operation is on the other table, whose queue is the same array
UseOtherTableSharedQueue ==
    /\ other.parked # Null
    /\ LET o == other.parked[1]
       IN  /\ cfg' = o.cfg
           /\ intervalId' = o.intervalId
           /\ liveTimers' = o.liveTimers
           /\ nextRow' = o.nextRow
           /\ pr' = o.pr
           /\ sent' = o.sent
    /\ other' = [this |-> 3 - other.this, parked |-> Some(ThisTable)]
    /\ call' = NoCall
    /\ last' = NoResponse
    /\ UNCHANGED <<queue, direct, conv, parsed, instance, job>>

\* the next operation is on the other table: this.bufferQueue is the queue
\* that table made for itself in _init()
UseOtherTable ==
    /\ other.parked # Null
    /\ LET o == other.parked[1]
       IN  /\ cfg' = o.cfg
           /\ queue' = o.queue
           /\ intervalId' = o.intervalId
           /\ liveTimers' = o.liveTimers
           /\ nextRow' = o.nextRow
           /\ pr' = o.pr
           /\ sent' = o.sent
    /\ other' = [this |-> 3 - other.this, parked |-> Some(ThisTable)]
    /\ call' = NoCall
    /\ last' = NoResponse
    /\ UNCHANGED <<direct, conv, parsed, instance, job>>

\* the state after new BigQueryTable(table, opts)
ConstructedTable(C) ==
    /\ cfg \in C
    /\ queue = <<>>
    /\ intervalId = Null
    /\ liveTimers = 0
    /\ nextRow = 1
    /\ pr = [r \in Rows |-> NoPromise]
    /\ sent = <<>>
    /\ last = NoResponse
    /\ call = NoCall
    /\ direct = <<>>
    /\ conv = NoConv
    /\ other = OneTable

\* the state after new BigQueryTable(table, opts), nothing else in use
Constructed(C) ==
    /\ ConstructedTable(C)
    /\ parsed = NoParse
    /\ instance = NoInstance
    /\ job = NoJob

\* the insert and flush operations of a table with a queue
QueueCalls ==
    \/ InsertOne
    \/ \E n \in 1..MaxMany : InsertMany(n)
    \/ TimerFires
    \/ ManualFlush

\* the insert and flush operations
Calls ==
    \/ QueueCalls
    \/ \E n \in 1..MaxMany : InsertDirect(RowsArray(n))

\* the iterator's promises settle with a response out of R
Settles(R) ==
    \/ \E b \in 1..MaxFlush, ie \in R : IteratorFulfils(b, ie)
    \/ \E b \in 1..MaxFlush, e \in FlushErrors : IteratorRejects(b, e)
    \/ \E b \in 1..MaxFlush : CatchHandler(b)

(* Tables with no size threshold or the small one *)
Init == Constructed({ c \in Configs : c.maxItems # Some(TestMaxItems) })

Next == Calls \/ Settles(OneRowError)

Spec == Init /\ [][Next]_vars

(* Tables with per-row promises, rows added one by one                     *)
InitResp == Constructed({ c \in Configs : /\ c.maxItems # Some(TestMaxItems)
                                         /\ c.bufferEnabled /\ c.itemPromises })

NextResp == InsertOne \/ TimerFires \/ ManualFlush \/ Settles(OneRowError)

SpecResp == InitResp /\ [][NextResp]_vars

(* Tables with per-row promises flushed again before a batch has settled   *)
InitAgain == Constructed({ c \in Configs : /\ c.maxItems = Some(SmallMaxItems) /\ c.maxTime = Null
                                          /\ c.bufferEnabled /\ c.itemPromises })

NextAgain == InsertOne \/ ManualFlush \/ FlushAgain \/ Settles(OneRowError)

SpecAgain == InitAgain /\ [][NextAgain]_vars

(* One batch of a table with per-row promises, every response              *)
InitStray == Constructed({ c \in Configs : /\ c.maxItems = Some(SmallMaxItems) /\ c.maxTime = Null
                                          /\ c.bufferEnabled /\ c.itemPromises })

NextStray ==
    \/ nextRow <= SmallMaxItems /\ InsertOne
    \/ ManualFlush
    \/ Settles(Responses)

SpecStray == InitStray /\ [][NextStray]_vars

(* Tables whose iterator can throw instead of returning a promise          *)
InitThrow == Constructed({ c \in Configs : /\ c.maxItems = Some(SmallMaxItems) /\ c.bufferEnabled
                                          /\ c.logger = Null })

NextThrow ==
    \/ QueueCalls
    \/ Settles(OneRowError)
    \/ TimerFiresIteratorThrows
    \/ ManualFlushIteratorThrows

SpecThrow == InitThrow /\ [][NextThrow]_vars

(* Two tables with per-row promises, a size and a time threshold           *)
TwoConfigs == { c \in Configs : /\ c.maxItems = Some(SmallMaxItems) /\ c.maxTime # Null
                                /\ c.bufferEnabled /\ c.itemPromises /\ c.logger # Null }

InitTwo ==
    /\ cfg \in TwoConfigs
    /\ queue = <<>>
    /\ intervalId = Null
    /\ liveTimers = 0
    /\ nextRow = 1
    /\ pr = [r \in Rows |-> NoPromise]
    /\ sent = <<>>
    /\ \E c \in TwoConfigs : other = [this |-> 1, parked |-> Some(NewTable(c))]
    /\ last = NoResponse
    /\ call = NoCall
    /\ direct = <<>>
    /\ conv = NoConv
    /\ parsed = NoParse
    /\ instance = NoInstance
    /\ job = NoJob

NextTwo ==
    \/ nextRow <= SmallMaxItems /\ InsertOne
    \/ TimerFires
    \/ Settles(OneRowError)
    \/ UseOtherTable

SpecTwo == InitTwo /\ [][NextTwo]_vars

(* Tables with the size threshold of the test-suite, built without logger  *)
InitTick == Constructed({ c \in Configs : /\ c.maxItems = Some(TestMaxItems) /\ c.bufferEnabled
                                         /\ c.logger = Null })

NextTick == QueueCalls \/ Settles(OneRowError)

SpecTick == InitTick /\ [][NextTick]_vars

(* Tables with per-row promises whose iterator promises settle and whose   *)
(* handlers get to run                                                     *)
InitFair == Constructed({ c \in Configs : /\ c.maxItems # Some(TestMaxItems)
                                         /\ c.bufferEnabled /\ c.itemPromises })

NextFair == InsertOne \/ TimerFires \/ ManualFlush \/ Settles(OneRowError)

Settle(b) ==
    \/ \E ie \in OneRowError : IteratorFulfils(b, ie)
    \/ \E e \in FlushErrors : IteratorRejects(b, e)

FairSpec ==
    /\ InitFair
    /\ [][NextFair]_vars
    /\ \A b \in 1..MaxFlush : WF_vars(Settle(b)) /\ WF_vars(CatchHandler(b))

(* Tables with a size and a time threshold whose armed interval fires      *)
InitTimer == Constructed({ c \in Configs : /\ c.maxItems = Some(SmallMaxItems)
                                          /\ c.maxTime # Null /\ c.bufferEnabled })

NextTimer == QueueCalls \/ Settles(OneRowError)

TimerSpec == InitTimer /\ [][NextTimer]_vars /\ WF_vars(TimerFires)

(* Payloads turned into rows by the table and by a storage class          *)
InitRow == Constructed({ c \in Configs : /\ ~c.bufferEnabled /\ ~c.itemPromises /\ c.maxItems = Null
                                        /\ c.maxTime = Null /\ c.logger = Null })

NextRow ==
    \/ \E row \in Payloads : GetRawRow(row)
    \/ \E row \in Payloads : MapRow(row)

SpecRow == InitRow /\ [][NextRow]_vars

(* Tables without buffer: inserts sent at once                            *)
DirectPayloads ==
    { p \in Payloads : p.value = Some(1) /\ p.title = Null /\ p._insertId # Some(987654321) }

DirectInputs ==
    { Single(p) : p \in DirectPayloads } \cup
    { ArrayOf(l) : l \in UNION { [1..k -> DirectPayloads] : k \in 1..2 } }

InitDirect == Constructed({ c \in Configs : /\ ~c.bufferEnabled /\ c.maxItems = Null
                                           /\ c.maxTime = Null /\ c.logger = Null })

NextDirect ==
    \/ \E data \in DirectInputs : Len(direct) < MaxDirect /\ InsertDirect(data)
    \/ \E k \in 1..MaxDirect, data \in RemoteData : RemoteFulfils(k, data)
    \/ \E k \in 1..MaxDirect, err \in InsertFailures : RemoteRejects(k, err)

SpecDirect == InitDirect /\ [][NextDirect]_vars

(* The helper's instance created, read and cleared in any order           *)
InitHelper == InitRow

NextHelper ==
    \/ \E opts \in HelperOpts, testing \in BOOLEAN : CreateInstance(opts, testing)
    \/ GetInstance
    \/ ClearInstance

SpecHelper == InitHelper /\ [][NextHelper]_vars

(* A job used while the client instance is created and cleared            *)
InitJob ==
    /\ ConstructedTable({ c \in Configs : /\ ~c.bufferEnabled /\ ~c.itemPromises
                                            /\ c.maxItems = Null /\ c.maxTime = Null
                                            /\ c.logger = Null })
    /\ parsed = NoParse
    /\ instance = NoInstance
    /\ job \in { NewJob(opts) : opts \in JobOpts }

JobCalls ==
    \/ \E op \in {"init", "validate", "run"} : Begin(op)
    \/ CreateInstance([projectId |-> "project-test", clientEmail |-> Null, privateKey |-> Null,
                       keyFilename |-> Some("file")], TRUE)
    \/ ClearInstance

NextJob == JobCalls \/ JobSteps

SpecJob == InitJob /\ [][NextJob]_vars

\* every promise a job awaits settles
FairJob == SpecJob /\ WF_vars(JobSteps)

(* The query options of a job with a client of its own, before and after  *)
(* init()                                                                  *)
InitOpts ==
    /\ InitJob
    /\ job.bigQuery # Null
    /\ job.shouldQueryResults
    /\ job.timeoutInMs = 0

NextOpts ==
    \/ Begin("init")
    \/ \E ok \in BOOLEAN : ReadFileSettles(ok)
    \/ \E opts \in QueryOpts : GetQueryOptions(opts)

SpecOpts == InitOpts /\ [][NextOpts]_vars

(* Schemas parsed                                                          *)
InitSchema == InitRow

NextSchema == \E pairs \in Schemas : ParseSchema(pairs)

SpecSchema == InitSchema /\ [][NextSchema]_vars

(* Remote errors parsed                                                    *)
InitErr == InitRow

NextErr ==
    \/ \E err \in RemoteErrors : ParseError(err)
    \/ \E err \in RemoteErrors : ParseErrorAndThrow(err)

SpecErr == InitErr /\ [][NextErr]_vars

(* The completion calls of the handlers applied, in any order and any     *)
(* number of times, to the promises of rows waiting in the buffer          *)
InitPR ==
    /\ cfg \in { c \in Configs : /\ c.bufferEnabled /\ c.itemPromises
                                 /\ c.maxItems = Null /\ c.maxTime = Null }
    /\ queue = [i \in 1..SmallMaxItems |-> i]
    /\ intervalId = Null
    /\ liveTimers = 0
    /\ nextRow = SmallMaxItems + 1
    /\ pr = [r \in Rows |-> IF r <= SmallMaxItems THEN NewPromise ELSE NoPromise]
    /\ sent = <<>>
    /\ last = NoResponse
    /\ call = NoCall
    /\ direct = <<>>
    /\ conv = NoConv
    /\ parsed = NoParse
    /\ instance = NoInstance
    /\ job = NoJob
    /\ other = OneTable

Complete(r, p) ==
    /\ pr[r].st # "none"
    /\ pr[r].calls < MaxCalls
    /\ pr' = [pr EXCEPT ![r] = p]
    /\ call' = NoCall
    /\ UNCHANGED <<cfg, conv, parsed, instance, job, other, queue, intervalId, liveTimers, nextRow, sent, last, direct>>

NextPR ==
    \/ \E r \in Rows : Complete(r, ResolveEntry(pr[r]))
    \/ \E r \in Rows, l \in ErrorLists : Complete(r, RejectEntry(pr[r], l))
    \/ \E r \in Rows, e \in FlushErrors \cup {TypeError} : Complete(r, RejectUnlessFulfilled(pr[r], e))

SpecPR == InitPR /\ [][NextPR]_vars

----------------------------------------------------------------------------
(* Properties *)

RECURSIVE Flatten(_)
Flatten(batches) ==
    IF batches = <<>> THEN <<>>
    ELSE Head(batches).pairs \o Flatten(Tail(batches))

Submitted == [i \in 1..(nextRow - 1) |-> i]

Tracked == cfg.bufferEnabled /\ cfg.itemPromises

BatchRows(b) == { sent[b].pairs[i] : i \in 1..Len(sent[b].pairs) }

\* C1: every batch handed to the iterator has at most maxItems rows, and the
\* batches in invocation order followed by the buffer are exactly the rows
\* submitted, in submission order: nothing lost, duplicated or reordered
C1_BatchesAreFifo ==
    cfg.bufferEnabled =>
        /\ Flatten(sent) \o queue = Submitted
        /\ cfg.maxItems # Null =>
               \A b \in 1..Len(sent) : Len(sent[b].pairs) <= cfg.maxItems[1]

C1_Witness ==
    /\ cfg.maxItems # Null
    /\ Len(sent) = 2
    /\ Len(sent[1].pairs) = cfg.maxItems[1]
    /\ sent[2].pairs # <<>>
    /\ queue # <<>>

\* the batch whose response was reconciled in the last step, once both of
\* its handlers are through
Reconciled ==
    /\ Tracked
    /\ last.b # 0
    /\ sent[last.b].st = "done"

\* C2: after a response with insertErrors, entry i of the batch is rejected
\* exactly when some insertErrors element has index i, and resolved otherwise
C2_RowErrorsOnly ==
    (Reconciled /\ last.indexes # {}) =>
        \A i \in 1..Len(sent[last.b].pairs) :
            LET p == pr[sent[last.b].pairs[i]]
            IN  IF (i - 1) \in last.indexes
                THEN p.st = "rejected"
                ELSE p.st = "fulfilled"

\* C3: after a response without insertErrors every promise of the batch is
\* resolved
C3_NoErrorsAllResolved ==
    (Tracked /\ last.b # 0 /\ last.indexes = {}) =>
        /\ sent[last.b].st = "done"
        /\ \A r \in BatchRows(last.b) : pr[r].st = "fulfilled"

C3_Witness ==
    /\ Tracked
    /\ last.b # 0
    /\ last.indexes = {}
    /\ Len(sent[last.b].pairs) = 2
    /\ \A r \in BatchRows(last.b) : pr[r].st = "fulfilled"

\* C4: after the iterator's promise rejected, every promise of the batch is
\* rejected with the error the iterator rejected with
C4_RejectionRejectsAll ==
    Tracked =>
        \A b \in 1..Len(sent) :
            (sent[b].st = "done" /\ sent[b].out = "rejected") =>
                \A r \in BatchRows(b) :
                    pr[r].st = "rejected" /\ pr[r].val = sent[b].err

C4_Witness ==
    /\ Tracked
    /\ \E b \in 1..Len(sent) :
          /\ sent[b].st = "done"
          /\ sent[b].out = "rejected"
          /\ Len(sent[b].pairs) = 2
          /\ \A r \in BatchRows(b) : pr[r].st = "rejected" /\ pr[r].val \in FlushErrors

InBatch(r) == \E b \in 1..Len(sent) : r \in BatchRows(b)

C7_SevenRowsOneFlush ==
    ( /\ Tracked
      /\ cfg.maxItems = Some(TestMaxItems)
      /\ nextRow = 8
      /\ \A b \in 1..Len(sent) : sent[b].cause = "size" ) =>
        /\ Len(sent) = 1
        /\ sent[1].pairs = <<1, 2, 3, 4, 5>>
        /\ queue = <<6, 7>>

C7_Witness ==
    /\ Tracked
    /\ cfg.maxItems = Some(TestMaxItems)
    /\ nextRow = 8
    /\ Len(sent) = 1
    /\ sent[1].cause = "size"
    /\ queue = <<6, 7>>

\* C8: maxTime set, maxItems unset, one row added and the timer fires: one
\* flush, with that row, and the timer is cleared
C8_TimerFlushesTheRow ==
    ( /\ cfg.bufferEnabled
      /\ cfg.maxItems = Null
      /\ cfg.maxTime # Null
      /\ nextRow = 2
      /\ sent # <<>>
      /\ \A b \in 1..Len(sent) : sent[b].cause = "timer" ) =>
        /\ Len(sent) = 1
        /\ sent[1].pairs = <<1>>
        /\ intervalId = Null
        /\ liveTimers = 0

\* C9: flush() with maxItems unset hands the whole buffer to the iterator
\* and leaves the buffer empty
C9_UnsetMaxItemsTakesAll ==
    [][(cfg.bufferEnabled /\ cfg.maxItems = Null /\ Len(sent') = Len(sent) + 1) =>
          (sent'[Len(sent')].pairs = queue /\ queue' = <<>>)]_vars

\* C10: insert(rows) with an array, buffering and per-row promises on, throws
\* ERROR_ADD_MANY_NOT_SUPPORTED and leaves buffer, timer and promises alone
C10_ArrayInsertThrows ==
    [][(Tracked /\ call'.op = "insertMany") =>
          /\ call'.thrown = ERROR_ADD_MANY_NOT_SUPPORTED
          /\ UNCHANGED <<queue, intervalId, liveTimers, nextRow, pr, sent>>]_vars

C10_Witness ==
    /\ Tracked
    /\ call = Threw("insertMany", ERROR_ADD_MANY_NOT_SUPPORTED)
    /\ queue # <<>>
    /\ intervalId # Null
    /\ \E r \in Rows : pr[r].st = "pending"

\* C11: once add or addMany has returned, size flush included, the buffer
\* holds at most maxItems rows
C11_BufferWithinMaxItems ==
    ( /\ cfg.bufferEnabled
      /\ cfg.maxItems # Null
      /\ call.op \in {"insertOne", "insertMany"}
      /\ call.thrown = "none" ) =>
        Len(queue) <= cfg.maxItems[1]

\* C12: at most one flush timer is alive, and it is the one the handle names
C12_AtMostOneTimer ==
    /\ liveTimers \in {0, 1}
    /\ liveTimers = 1 <=> intervalId # Null

C12_Witness ==
    /\ cfg.maxTime # Null
    /\ Len(sent) = 1
    /\ sent[1].cause = "size"
    /\ queue # <<>>
    /\ queue[1] = Len(sent[1].pairs) + 1
    /\ liveTimers = 1

\* C13: with a time threshold, rows in the buffer keep the timer armed, and
\* every row a capped flush left in the buffer is handed to the iterator by
\* a later flush (as long as the run has a flush left), whether or not the
\* earlier batch has settled
C13_LeftoverIsFlushed ==
    /\ []((cfg.maxTime # Null /\ queue # <<>>) => intervalId # Null)
    /\ \A r \in Rows :
          (sent # <<>> /\ \E i \in 1..Len(queue) : queue[i] = r)
              ~> (InBatch(r) \/ Len(sent) >= FlushCap)

C13_Witness ==
    /\ Len(sent) = 2
    /\ sent[1].cause = "size"
    /\ sent[1].st = "inflight"
    /\ sent[2].cause = "timer"
    /\ sent[2].pairs # <<>>
    /\ queue = <<>>
    /\ intervalId = Null

\* C14: maxItems = 5, maxTime = 100, no per-row promises, three rows added
\* and the interval left to fire until it is cleared: two flush() calls, the
\* first with the three rows, the second with none
C14_TwoFlushCalls ==
    ( /\ cfg.bufferEnabled
      /\ ~cfg.itemPromises
      /\ cfg.maxItems = Some(TestMaxItems)
      /\ cfg.maxTime = Some(MaxTimeMs)
      /\ nextRow = 4
      /\ sent # <<>>
      /\ \A b \in 1..Len(sent) : sent[b].cause = "timer"
      /\ liveTimers = 0 ) =>
        /\ Len(sent) = 2
        /\ sent[1].pairs = <<1, 2, 3>>
        /\ sent[2].pairs = <<>>

\* C15: a row handed to the iterator stays in its batch, at its position,
\* and never reappears in the buffer or in another batch, whatever the
\* outcome of the flush
C15_NeverPutBack ==
    [][\A b \in 1..Len(sent) :
          /\ Len(sent') >= Len(sent)
          /\ sent'[b].pairs = sent[b].pairs
          /\ \A r \in BatchRows(b) :
                /\ \A i \in 1..Len(queue') : queue'[i] # r
                /\ \A c \in 1..Len(sent') :
                      c # b => \A i \in 1..Len(sent'[c].pairs) : sent'[c].pairs[i] # r]_vars

C15_Witness ==
    /\ Len(sent) = 2
    /\ sent[1].st = "done"
    /\ sent[1].out = "rejected"
    /\ sent[1].pairs # <<>>
    /\ sent[2].pairs # <<>>
    /\ queue # <<>>

Untracked == cfg.bufferEnabled /\ ~cfg.itemPromises

\* C16: without per-row promises a rejection of the iterator never rejects
\* the promise flush() returned; it is logged once when a logger is set and
\* not at all otherwise; the failure handler leaves buffer and timer as they
\* are, so the queue goes on accepting rows and flushing
C16_UntrackedFailureIsLogged ==
    /\ [](Untracked =>
            \A b \in 1..Len(sent) :
                /\ sent[b].ret # "rejected"
                /\ sent[b].st = "done" => sent[b].ret = "fulfilled"
                /\ (sent[b].st = "done" /\ sent[b].out = "rejected") =>
                       sent[b].logged = (IF cfg.logger # Null THEN 1 ELSE 0)
                /\ sent[b].out # "rejected" => sent[b].logged = 0)
    /\ [][(Untracked /\ \E b \in 1..Len(sent) :
                            sent[b].st = "rejected" /\ sent'[b].st = "done") =>
              UNCHANGED <<queue, intervalId, liveTimers, nextRow>>]_vars

C16_Witness ==
    /\ Untracked
    /\ cfg.logger # Null
    /\ Len(sent) = 2
    /\ sent[1].out = "rejected"
    /\ sent[1].ret = "fulfilled"
    /\ sent[1].logged = 1
    /\ sent[2].cause = "size"
    /\ sent[2].out = "ok"
    /\ queue # <<>>

\* C17: with per-row promises the promise flush() returned fulfils once the
\* iterator's promise has settled and the handlers have run, and is never
\* rejected, whatever the iterator's outcome
C17_FlushPromiseFulfils ==
    /\ \A b \in 1..MaxFlush :
          (b <= Len(sent) /\ sent[b].st = "inflight")
              ~> (b <= Len(sent) /\ sent[b].ret = "fulfilled")
    /\ [](\A b \in 1..Len(sent) :
             /\ sent[b].ret # "rejected"
             /\ sent[b].ret = "fulfilled" <=> sent[b].st = "done")

C17_Witness ==
    /\ Tracked
    /\ Len(sent) = 1
    /\ sent[1].out = "rejected"
    /\ sent[1].ret = "fulfilled"
    /\ \E r \in BatchRows(1) : pr[r].st = "rejected" /\ pr[r].val = sent[1].err

\* C18: a row whose insertErrors element has several errors is rejected with
\* BQ_INSERT_ERROR and the reason and message of the first one, and the
\* other rows of the batch are settled as their own index says
C18_FirstErrorOnly ==
    (Reconciled /\ last.multi # {}) =>
        \A i \in 1..Len(sent[last.b].pairs) :
            LET p == pr[sent[last.b].pairs[i]]
            IN  /\ (i - 1) \in last.multi =>
                       /\ p.st = "rejected"
                       /\ p.val.code = BQ_INSERT_ERROR
                       /\ p.val.msg = <<Invalid.reason, ": ", Invalid.message>>
                /\ (i - 1) \in last.indexes \ last.multi =>
                       p.st = "rejected" /\ p.val.code = BQ_INSERT_ERROR
                /\ (i - 1) \notin last.indexes => p.st = "fulfilled"

\* C19: the row built carries the caller's _insertId when the payload has
\* one, and the json is the payload without that field; otherwise it
\* carries an id generated for this row
C19_CallerInsertIdKept ==
    conv.path # "none" =>
        /\ conv.out.json = [conv.before EXCEPT !._insertId = Null]
        /\ IF conv.before._insertId # Null
           THEN conv.out.insertId = conv.before._insertId[1]
           ELSE conv.out.insertId = Uuid(conv.uuids)

\* C20: the object the caller passed has the same fields and values after
\* the call as before
C20_PayloadUntouched ==
    conv.path # "none" => conv.after = conv.before

\* C21: for a partial failure the exception's errors list has one entry per
\* element of err.errors, in order, with the element's row and the reason
\* and message of its first error, null when it has none
C21_PartialFailureRows ==
    (parsed.op # "none" /\ parsed.err.name = PARTIAL_FAILURE_ERROR) =>
        LET items == parsed.err.errors[1]
            out   == parsed.value.errors
        IN  /\ out # Null
            /\ Len(out[1]) = Len(items)
            /\ \A i \in 1..Len(items) :
                  /\ out[1][i].row = items[i].row
                  /\ IF items[i].errors = <<>>
                     THEN out[1][i].reason = Null /\ out[1][i].message = Null
                     ELSE /\ out[1][i].reason = Some(items[i].errors[1].reason)
                          /\ out[1][i].message = Some(items[i].errors[1].message)

C21_Witness ==
    /\ parsed.op = "parseError"
    /\ parsed.err.name = PARTIAL_FAILURE_ERROR
    /\ Len(parsed.err.errors[1]) = 2
    /\ Len(parsed.err.errors[1][1].errors) = 2
    /\ parsed.err.errors[1][2].errors = <<>>
    /\ parsed.err.errors[1][1].row # parsed.err.errors[1][2].row

\* C22: for an error whose name is not PartialFailureError the exception
\* carries the error's code and its message (its name when it has no
\* message) and errors = null; parseErrorAndThrow throws that exception and
\* never returns
C22_WholeFailure ==
    /\ (parsed.op # "none" /\ parsed.err.name # PARTIAL_FAILURE_ERROR) =>
          /\ parsed.value.code = parsed.err.code
          /\ parsed.value.message =
                 IF parsed.err.message # Null THEN parsed.err.message ELSE Some(parsed.err.name)
          /\ parsed.value.errors = Null
    /\ parsed.op = "parseErrorAndThrow" =>
          /\ parsed.outcome = "threw"
          /\ parsed.value = parseError(parsed.err)

C22_Witness ==
    /\ parsed.op = "parseErrorAndThrow"
    /\ parsed.err.name # PARTIAL_FAILURE_ERROR
    /\ parsed.err.code = Some("404")
    /\ parsed.err.message # Null
    /\ parsed.outcome = "threw"

\* C23: the exception made for an error without code or structure keeps
\* the error's message and its stack, as its own or through the error
\* attached as cause
C23_NoDataLoss ==
    (parsed.op # "none" /\ parsed.err.name # PARTIAL_FAILURE_ERROR /\ parsed.err.code = Null) =>
        /\ parsed.err.message # Null => parsed.value.message = parsed.err.message
        /\ \/ parsed.value.stack = parsed.err.stack
           \/ parsed.value.cause = Some(parsed.err)

C25_GetInstance ==
    [][instance'.op = "getInstance" =>
          /\ (instance'.thrown = ERROR_INSTANCE_NOT_CREATED) <=> (instance.made = Null)
          /\ instance.made # Null =>
                (instance'.thrown = "none" /\ instance'.ret = instance.made)]_vars

C25_Witness ==
    /\ instance.op = "getInstance"
    /\ instance.thrown = "none"
    /\ instance.n = 2
    /\ instance.ret # Null
    /\ instance.ret[1].id = 2

\* C26: createInstance with an instance in place throws
\* ERROR_INSTANCE_ALREADY_CREATED and leaves the instance as it is; right
\* after clearInstance, createInstance succeeds
C26_CreateInstance ==
    [][instance'.op = "createInstance" =>
          /\ instance.inst # Null =>
                /\ instance'.thrown = ERROR_INSTANCE_ALREADY_CREATED
                /\ instance'.inst = instance.inst
          /\ instance.op = "clearInstance" =>
                /\ instance'.thrown = "none"
                /\ instance'.inst # Null
                /\ instance'.ret = instance'.inst]_vars

C26_Witness ==
    /\ instance.op = "createInstance"
    /\ instance.thrown = ERROR_INSTANCE_ALREADY_CREATED
    /\ instance.n = 2
    /\ instance.inst # Null
    /\ instance.inst[1].id = 2

\* C27: init() on an initialized job returns the job at once, with no call
\* of getInstance, no read of the SQL file and bigQuery, sqlStr and
\* sqlTemplate as they were
C27_InitIdempotent ==
    [][(job.pc = "idle" /\ job.initialized /\ job'.op = "init" /\ job'.runs = job.runs + 1) =>
          /\ job'.pc = "idle"
          /\ job'.st = "fulfilled"
          /\ job'.ret = "this"
          /\ job'.getInstanceCalls = job.getInstanceCalls
          /\ job'.readFileCalls = job.readFileCalls
          /\ job'.bigQuery = job.bigQuery
          /\ job'.sqlStr = job.sqlStr
          /\ job'.sqlTemplate = job.sqlTemplate
          /\ job'.initialized
          /\ instance' = instance]_vars

C27_Witness ==
    /\ job.op = "init"
    /\ job.runs = 2
    /\ job.st = "fulfilled"
    /\ job.getInstanceCalls = 1
    /\ job.readFileCalls = 1
    /\ instance.inst = Null

\* C28: in a run() the query jobs created are the dry run first and the
\* real one second; when the dry run is rejected no real job is created and
\* run() rejects with the error parsed
C28_ValidateFirst ==
    job.op = "run" =>
        /\ \A i \in 1..Len(job.jobs) : job.jobs[i].dryRun <=> (i = 1)
        /\ Len(job.jobs) <= 2
        /\ job.rawAt = "dryRun" =>
              /\ Len(job.jobs) = 1
              /\ job.st = "rejected"
              /\ job.err = Some(parseError(job.raw[1]))

C28_Witness ==
    /\ job.op = "run"
    /\ job.rawAt = "dryRun"
    /\ job.st = "rejected"
    /\ job.jobs = <<[dryRun |-> TRUE]>>
    /\ job.err[1].code = Some("404")

\* C29: with shouldQueryResults false run() never asks for the query
\* results, waits again only after a state other than DONE, and fulfils only
\* after a DONE state was polled, with undefined
C29_NoResultsWaitsForDone ==
    (job.op = "run" /\ ~job.shouldQueryResults) =>
        /\ job.resultsCalls = 0
        /\ job.pc = "delay" => job.observed \in JobStates \ {"DONE"}
        /\ job.st = "fulfilled" =>
              /\ job.polls >= 1
              /\ job.observed = "DONE"
              /\ job.ret = "undefined"

C29_Witness ==
    /\ job.op = "run"
    /\ ~job.shouldQueryResults
    /\ job.st = "fulfilled"
    /\ job.polls = 2
    /\ job.observed = "DONE"

\* C30: the wait for the job ends; it ends well only on a DONE state, it
\* polls only while the timeout has not elapsed, and when the loop is left
\* without DONE and without a remote error run() rejects with JOB_TIMEOUT
C30_WaitTerminates ==
    /\ (job.pc \in {"poll", "delay"}) ~> (job.pc = "idle")
    /\ []((job.op = "run" /\ ~job.shouldQueryResults) =>
            /\ job.pc = "poll" => job.elapsed < job.timeoutInMs
            /\ job.st = "fulfilled" => job.observed = "DONE"
            /\ (job.st = "rejected" /\ job.raw = Null /\ job.failedAt \in {"query", "delay"}) =>
                  /\ job.err[1].code = Some(JOB_TIMEOUT)
                  /\ job.elapsed >= job.timeoutInMs
                  /\ job.observed # "DONE")

C30_Witness ==
    /\ job.op = "run"
    /\ job.st = "rejected"
    /\ job.err # Null
    /\ job.err[1].code = Some(JOB_TIMEOUT)
    /\ job.polls = 2
    /\ job.observed = "RUNNING"

\* C31: the options returned carry the caller's dryRun, useLegacySql and
\* query when opts has them, the defaults otherwise, and location, jobId
\* and jobPrefix null whatever opts has for them
C31_QueryOptions ==
    ("out" \in DOMAIN job.qo) =>
        LET o == job.qo.opts
            r == job.qo.out
        IN  /\ r.location = Null /\ r.jobId = Null /\ r.jobPrefix = Null
            /\ o.dryRun # Null => r.dryRun = o.dryRun
            /\ o.dryRun = Null => r.dryRun = Some(FALSE)
            /\ o.useLegacySql # Null => r.useLegacySql = o.useLegacySql
            /\ o.useLegacySql = Null => r.useLegacySql = Some(FALSE)
            /\ o.query # Null => r.query = o.query
            /\ o.query = Null => r.query = Some(getQuerySQL(job))

C31_Witness ==
    /\ "out" \in DOMAIN job.qo
    /\ job.qo.opts.location # Null
    /\ job.qo.opts.jobId # Null
    /\ job.qo.opts.jobPrefix # Null
    /\ job.qo.opts.useLegacySql = Some(TRUE)
    /\ job.qo.opts.query # Null
    /\ job.qo.out.useLegacySql = Some(TRUE)

\* C32: parseSchema throws ERROR_INVALID_SCHEMA_TYPE and returns nothing
\* when some entry has a type outside STRING, INTEGER, FLOAT, BOOLEAN,
\* TIMESTAMP; otherwise it returns one field per key, in key order, with
\* the key's name and type and mode NULLABLE
C32_ParseSchemaAllOrNothing ==
    conv.path = "parseSchema" =>
        IF \E i \in 1..Len(conv.schema) : conv.schema[i][2] \notin SchemaTypes
        THEN conv.res = [thrown |-> INVALID_SCHEMA_TYPE]
        ELSE /\ conv.res.thrown = "none"
             /\ Len(conv.res.fields) = Len(conv.schema)
             /\ \A i \in 1..Len(conv.schema) :
                   conv.res.fields[i] = [name |-> conv.schema[i][1], type |-> conv.schema[i][2],
                                         mode |-> NULLABLE]

\* C33: an armed flush timer means a non-empty buffer (a flush that empties
\* the buffer clears the timer in the same step), and no flush started by
\* the timer hands an empty batch to the iterator
C33_TimerNeverFindsEmptyBuffer ==
    cfg.bufferEnabled =>
        /\ liveTimers > 0 => queue # <<>>
        /\ \A b \in 1..Len(sent) : sent[b].cause = "timer" => sent[b].pairs # <<>>

\* C34: batches handed over by overlapping flushes share no entry, and the
\* settling of one batch (its success or failure handler running) changes
\* only the promises of that batch, in whichever order the batches settle
C34_OverlappingFlushes ==
    /\ [](Tracked =>
            \A b, c \in 1..Len(sent) : b # c => BatchRows(b) \cap BatchRows(c) = {})
    /\ [][Tracked =>
            \A b \in 1..Len(sent) :
                sent'[b] # sent[b] =>
                    \A r \in Rows : pr'[r] # pr[r] => r \in BatchRows(b)]_vars

\* two batches were in flight together and the later one settled first
C34_Witness ==
    /\ Tracked
    /\ Len(sent) = 2
    /\ sent[1].pairs # <<>>
    /\ sent[2].pairs # <<>>
    /\ sent[1].st = "inflight"
    /\ sent[2].st = "done"
    /\ \A r \in BatchRows(2) : Terminal(pr[r])
    /\ \A r \in BatchRows(1) : pr[r].st = "pending"

\* C35: the batch handed to the iterator is as long as the extracted slice;
\* with per-row promises its element i is the payload of extracted entry i,
\* without its promise, and a response index i settles the promise of that
\* entry; without per-row promises the entries are handed over unchanged
C35_ItemsMatchEntries ==
    /\ [](cfg.bufferEnabled =>
            \A b \in 1..Len(sent) :
                /\ Len(sent[b].items) = Len(sent[b].pairs)
                /\ \A i \in 1..Len(sent[b].pairs) :
                      sent[b].items[i] = IF cfg.itemPromises THEN Item(sent[b].pairs[i])
                                         ELSE Entry(sent[b].pairs[i]))
    /\ [][Tracked =>
            \A b \in 1..Len(sent) :
                (sent[b].st = "inflight" /\ sent'[b].st = "done") =>
                    \A i \in 1..Len(sent[b].pairs) :
                        /\ sent[b].items[i] = Item(sent[b].pairs[i])
                        /\ pr'[sent[b].pairs[i]].st =
                              IF (i - 1) \in last'.indexes THEN "rejected" ELSE "fulfilled"]_vars

\* a tracked batch of two rows settled with a row error for its second item
C35_Witness ==
    /\ Tracked
    /\ Len(sent) = 1
    /\ sent[1].st = "done"
    /\ sent[1].items = <<Item(1), Item(2)>>
    /\ last.b = 1
    /\ last.indexes = {1}
    /\ pr[1].st = "fulfilled"
    /\ pr[2].st = "rejected"

C37_ThrowingReconciliation ==
    /\ [][Tracked =>
            \A b \in 1..Len(sent) :
                (sent[b].st = "inflight" /\ sent'[b].st = "threw") =>
                    \E k \in 1..Len(sent[b].pairs) :
                        /\ \A i \in 1..(k - 1) : Terminal(pr'[sent[b].pairs[i]])
                        /\ \A i \in k..Len(sent[b].pairs) :
                              /\ pr[sent[b].pairs[i]].st = "pending"
                              /\ pr'[sent[b].pairs[i]] = pr[sent[b].pairs[i]]]_vars
    /\ [][Tracked =>
            \A b \in 1..Len(sent) :
                (sent[b].st = "threw" /\ sent'[b].st = "done") =>
                    \A r \in BatchRows(b) :
                        IF Terminal(pr[r])
                        THEN pr'[r].st = pr[r].st /\ pr'[r].val = pr[r].val
                        ELSE pr'[r].st = "rejected" /\ pr'[r].val = sent[b].err]_vars

\* the handler threw at the second row of a batch of two
C37_Witness ==
    /\ Tracked
    /\ cfg.logger = Null
    /\ Len(sent) = 1
    /\ sent[1].st = "done"
    /\ sent[1].out = "threw"
    /\ Len(sent[1].pairs) = 2
    /\ pr[sent[1].pairs[1]].st = "fulfilled"
    /\ pr[sent[1].pairs[2]].st = "rejected"
    /\ pr[sent[1].pairs[2]].val = TypeError

\* the response reconciled last names an index outside its batch or names
\* an index twice
StrayOrRepeated ==
    \E k \in 1..Len(last.response) :
        \/ last.response[k].index >= Len(sent[last.b].pairs)
        \/ \E j \in 1..Len(last.response) : j # k /\ last.response[j].index = last.response[k].index

\* C38: an insertErrors element with an index outside the batch changes no
\* promise, every entry being settled by the elements that carry its own
\* index: resolved when there is none, rejected once, with the errors of
\* the last of them, when there are several
C38_StrayAndRepeatedIndexes ==
    (Reconciled /\ StrayOrRepeated) =>
        \A i \in 1..Len(sent[last.b].pairs) :
            LET p == pr[sent[last.b].pairs[i]]
                w == { k \in 1..Len(last.response) : last.response[k].index = i - 1 }
            IN  IF w = {}
                THEN p.st = "fulfilled"
                ELSE /\ p.st = "rejected"
                     /\ p.calls = 1
                     /\ p.val = BqException(last.response[CHOOSE k \in w : \A j \in w : j <= k].errors)

\* C39: when the iterator throws instead of returning a promise, flush()
\* throws to its caller with the batch already out of the buffer: the
\* entries are never put back and, with per-row promises, that flush
\* neither resolves nor rejects their promises
C39_IteratorThrows ==
    /\ [](cfg.bufferEnabled =>
            \A b \in 1..Len(sent) :
                sent[b].st = "thrown" =>
                    \A r \in BatchRows(b) :
                        /\ \A i \in 1..Len(queue) : queue[i] # r
                        /\ cfg.itemPromises => pr[r].st = "pending" /\ pr[r].calls = 0)
    /\ [][(cfg.bufferEnabled /\ Len(sent') = Len(sent) + 1 /\ sent'[Len(sent')].st = "thrown") =>
            /\ call'.thrown = TypeError.code
            /\ sent'[Len(sent')].pairs \o queue' = queue
            /\ pr' = pr]_vars

\* the iterator threw for the first row of a table with per-row promises
\* and a second row was added afterwards
C39_Witness ==
    /\ Tracked
    /\ Len(sent) = 1
    /\ sent[1].st = "thrown"
    /\ sent[1].pairs = <<1>>
    /\ queue = <<2>>
    /\ pr[1].st = "pending"

====
